---- MODULE Spec2Model ----
(***************************************************************************)
(* Lab Four: sequential and OpenMP-task parallel quicksort.                *)
(*                                                                         *)
(* main copies one input array into arr_s and arr_p, runs sort_s(arr_s)    *)
(* and then sort_p(arr_p).  sort_p opens a parallel region; one thread     *)
(* runs QuickSort_Parallel from a "single nowait" block, the other threads *)
(* go to the implicit barrier that ends the region and execute the tasks   *)
(* that QuickSort_Parallel submits.  Arrays are functions on 0..n-1, as in *)
(* the C code.  An invocation of QuickSort or QuickSort_Parallel is a      *)
(* record of its arguments, its locals and its position; a thread is the   *)
(* stack of the invocations it is executing.                               *)
(*                                                                         *)
(* Two further parallel regions are modelled, each under a specification   *)
(* of its own: the loop that fills the array in main of Lab Four (GenSpec) *)
(* and Calculate_Pi_Parallel of Lab One (PiSpec).  The variables of the    *)
(* regions a specification does not run stay at their idle values.         *)
(***************************************************************************)
EXTENDS Integers, Sequences, FiniteSets, Bags, TLC

\* Bounds of the model.
MaxLen == 3
MaxVal == 3
MaxCutOff == 4
NumThreads == 2
MaxPool == 2
MaxThreads == 3
MaxTosses == 4

Values == 1..MaxVal
CutOffs == 1..MaxCutOff

\* Array with the cells of the sequence s at indices 0..Len(s)-1.
ArrayOf(s) == [k \in 0..(Len(s) - 1) |-> s[k + 1]]

\* The concrete scenario of the specification.
ScenarioInput == ArrayOf(<<5, 3, 8, 1, 9, 2>>)
ScenarioOutput == ArrayOf(<<1, 2, 3, 5, 8, 9>>)

\* The arrays main may hand to the sorters.
Inputs == (UNION {[0..(n - 1) -> Values] : n \in 0..MaxLen}) \cup {ScenarioInput}

VARIABLES
    input,        \* the array as generated by main, before any sort
    Cut_Off,      \* the fan-out threshold
    arr_s,        \* the array sorted by sort_s
    arr_p,        \* the array sorted by sort_p
    mpc,          \* position of main
    stk_s,        \* call stack of QuickSort under sort_s
    arriving,     \* number of threads of the team not yet at the single block
    waiting,      \* number of threads waiting at the barrier ending the region
    stacks,       \* bag of the QuickSort_Parallel call stacks of the other threads
    pool,         \* bag of submitted tasks not yet started
    singleTaken   \* whether a thread has entered the single block

\* Lab Four, main: the parallel region that fills the array.
VARIABLES
    gen_pc,       \* position of main: "off", "region", "copied"
    max_threads,  \* omp_get_max_threads()
    gen_size,     \* number of cells of the array being filled
    gen_arr,      \* the array being filled; 0 is a cell never written
    gen_writes,   \* per index, how many times it was written
    gen_i         \* per thread p, its loop index i; -1 before chunk_start is set

\* Lab One, Calculate_Pi_Parallel.
VARIABLES
    pi_pc,                     \* position: "off", "region", "returned"
    number_of_tosses,
    numberOfThreads,
    numberOfSamplesInCircle,   \* the shared counter
    ipc,          \* per loop iteration: "call", "load", "store", "done"
    samples,      \* per iteration, what Count_Number_Of_Samples_In_Circle returned
    loaded        \* per iteration, the value of the counter it read

sortVars == <<input, Cut_Off, arr_s, arr_p, mpc, stk_s, arriving, waiting, stacks, pool, singleTaken>>
genVars == <<gen_pc, max_threads, gen_size, gen_arr, gen_writes, gen_i>>
piVars == <<pi_pc, number_of_tosses, numberOfThreads, numberOfSamplesInCircle, ipc, samples, loaded>>

vars == <<sortVars, genVars, piVars>>

\* The sorters are not running.
SortIdle ==
    /\ input = <<>> /\ Cut_Off = 1 /\ arr_s = <<>> /\ arr_p = <<>>
    /\ mpc = "off" /\ stk_s = <<>>
    /\ arriving = 0 /\ waiting = 0 /\ stacks = EmptyBag /\ pool = EmptyBag
    /\ singleTaken = FALSE

\* The array is not being filled.
GenIdle ==
    /\ gen_pc = "off" /\ max_threads = 1 /\ gen_size = 0
    /\ gen_arr = <<>> /\ gen_writes = <<>> /\ gen_i = <<>>

\* Calculate_Pi_Parallel is not running.
PiIdle ==
    /\ pi_pc = "off" /\ number_of_tosses = 0 /\ numberOfThreads = 1
    /\ numberOfSamplesInCircle = 0
    /\ ipc = <<>> /\ samples = <<>> /\ loaded = <<>>

Num_To_Sort == Cardinality(DOMAIN input)

\* C integer division by a positive divisor: truncates toward zero.
CDiv(a, b) == IF a >= 0 THEN a \div b ELSE -((-a) \div b)

\* Index of the pivot read: (left + right) / 2.
PivotIndex(left, right) == CDiv(left + right, 2)

\* An invocation on entry: i = left, j = right, pivot not yet read.
\* kind is "call" for a direct call and "task" for a task body; path is the
\* place of the invocation in the tree of calls and tasks: <<>> for the
\* top-level call, and the parent's path followed by 1 (for [left, j]) or
\* by 2 (for [i, right]) otherwise.
NewFrame(left, right, kind, path) ==
    [left |-> left, right |-> right, i |-> left, j |-> right,
     pivot |-> 0, pc |-> "pivot", kind |-> kind, path |-> path]

\* Mutant of ScanUp: the scan also steps over values equal to the pivot.
RECURSIVE ScanUpLe(_, _, _)
ScanUpLe(a, i, pivot) ==
    IF i \in DOMAIN a /\ a[i] <= pivot THEN ScanUpLe(a, i + 1, pivot) ELSE i

\* while (arr[i] < pivot) i++;
RECURSIVE ScanUp(_, _, _)
ScanUp(a, i, pivot) ==
    IF i \in DOMAIN a /\ a[i] < pivot THEN ScanUp(a, i + 1, pivot) ELSE i

\* Mutant of ScanDown: the scan also steps over values equal to the pivot.
RECURSIVE ScanDownGe(_, _, _)
ScanDownGe(a, j, pivot) ==
    IF j \in DOMAIN a /\ a[j] >= pivot THEN ScanDownGe(a, j - 1, pivot) ELSE j

\* while (arr[j] > pivot) j--;
RECURSIVE ScanDown(_, _, _)
ScanDown(a, j, pivot) ==
    IF j \in DOMAIN a /\ a[j] > pivot THEN ScanDown(a, j - 1, pivot) ELSE j

\* Mutant of Swap: the saved value tmp is never stored back.
SwapLost(a, x, y) == [a EXCEPT ![x] = a[y]]

\* tmp = arr[x]; arr[x] = arr[y]; arr[y] = tmp;
Swap(a, x, y) == [a EXCEPT ![x] = a[y], ![y] = a[x]]

\* One pass of the body of the outer while loop: the array afterwards.
IterArr(a, f) ==
    LET i1 == ScanUp(a, f.i, f.pivot)
        j1 == ScanDown(a, f.j, f.pivot)
    IN  IF i1 <= j1 THEN Swap(a, i1, j1) ELSE a

\* Mutant of IterI: after a swap i is advanced by two.
IterISkip(a, f) ==
    LET i1 == ScanUp(a, f.i, f.pivot)
        j1 == ScanDown(a, f.j, f.pivot)
    IN  IF i1 <= j1 THEN i1 + 2 ELSE i1

\* One pass of the body of the outer while loop: i afterwards.
IterI(a, f) ==
    LET i1 == ScanUp(a, f.i, f.pivot)
        j1 == ScanDown(a, f.j, f.pivot)
    IN  IF i1 <= j1 THEN i1 + 1 ELSE i1

\* Mutant of IterJ: after a swap j is lowered by two.
IterJSkip(a, f) ==
    LET i1 == ScanUp(a, f.i, f.pivot)
        j1 == ScanDown(a, f.j, f.pivot)
    IN  IF i1 <= j1 THEN j1 - 2 ELSE j1

\* One pass of the body of the outer while loop: j afterwards.
IterJ(a, f) ==
    LET i1 == ScanUp(a, f.i, f.pivot)
        j1 == ScanDown(a, f.j, f.pivot)
    IN  IF i1 <= j1 THEN j1 - 1 ELSE j1

\* Where QuickSort goes when the loop test i <= j fails: the guarded calls.
SeqBranch(f) == "call1"

\* Mutant of ParBranch: the two branches are exchanged.
ParBranchSwapped(f, cutoff) == IF (f.right - f.left) < cutoff THEN "task1" ELSE "call1"

\* Mutant of ParBranch: the test is <= instead of <.
ParBranchLe(f, cutoff) == IF (f.right - f.left) <= cutoff THEN "call1" ELSE "task1"

\* Where QuickSort_Parallel goes when the loop test i <= j fails.
ParBranch(f, cutoff) == IF (f.right - f.left) < cutoff THEN "call1" ELSE "task1"

Top(stk) == stk[Len(stk)]
Pop(stk) == SubSeq(stk, 1, Len(stk) - 1)
SetTop(stk, f) == [stk EXCEPT ![Len(stk)] = f]

\* Mutant of Resume: the second guard tests i < left, so the right part is
\* never sorted.
RECURSIVE ResumeSkipRight(_)
ResumeSkipRight(stk) ==
    IF stk = <<>> THEN stk
    ELSE LET f == Top(stk) IN
         CASE f.pc = "call1" ->
                IF f.left < f.j
                THEN Append(SetTop(stk, [f EXCEPT !.pc = "call2"]),
                            NewFrame(f.left, f.j, "call", Append(f.path, 1)))
                ELSE ResumeSkipRight(SetTop(stk, [f EXCEPT !.pc = "call2"]))
           [] f.pc = "call2" ->
                IF f.i < f.left
                THEN Append(SetTop(stk, [f EXCEPT !.pc = "ret"]),
                            NewFrame(f.i, f.right, "call", Append(f.path, 2)))
                ELSE ResumeSkipRight(SetTop(stk, [f EXCEPT !.pc = "ret"]))
           [] f.pc = "ret" -> ResumeSkipRight(Pop(stk))
           [] OTHER -> stk

\* The guarded inline calls and the returns, from the invocation on top of
\* the stack.  The result is a stack that is empty or whose top invocation
\* is about to read its pivot or to submit its second task.
RECURSIVE Resume(_)
Resume(stk) ==
    IF stk = <<>> THEN stk
    ELSE LET f == Top(stk) IN
         CASE f.pc = "call1" ->
                IF f.left < f.j
                THEN Append(SetTop(stk, [f EXCEPT !.pc = "call2"]),
                            NewFrame(f.left, f.j, "call", Append(f.path, 1)))
                ELSE Resume(SetTop(stk, [f EXCEPT !.pc = "call2"]))
           [] f.pc = "call2" ->
                IF f.i < f.right
                THEN Append(SetTop(stk, [f EXCEPT !.pc = "ret"]),
                            NewFrame(f.i, f.right, "call", Append(f.path, 2)))
                ELSE Resume(SetTop(stk, [f EXCEPT !.pc = "ret"]))
           [] f.pc = "ret" -> Resume(Pop(stk))
           [] OTHER -> stk


\* The indices the next step of invocation f reads.
NextReads(a, f) ==
    CASE f.pc = "pivot" -> {PivotIndex(f.left, f.right)}
      [] f.pc = "loop" -> (f.i .. ScanUp(a, f.i, f.pivot))
                            \cup (ScanDown(a, f.j, f.pivot) .. f.j)
      [] OTHER -> {}

\* The indices the next step of invocation f writes.
NextWrites(a, f) ==
    IF f.pc = "loop"
    THEN LET i1 == ScanUp(a, f.i, f.pivot)
             j1 == ScanDown(a, f.j, f.pivot)
         IN  IF i1 <= j1 THEN {i1, j1} ELSE {}
    ELSE {}

\* The values a read of a[m] can yield: the cell's value, or any value when
\* the read is outside the array or concurrent with a write of the cell.
ReadValues(a, m, racy) ==
    IF m \in DOMAIN a
    THEN (IF racy THEN Values \cup {a[m]} ELSE {a[m]})
    ELSE Values

\* const int pivot = arr[(left + right) / 2]; followed by the loop test.
AfterPivot(f, v, branch) ==
    [f EXCEPT !.pivot = v, !.pc = IF f.i <= f.j THEN "loop" ELSE branch]

\* Mutant of AfterIter: i++ and j-- after the swap are missing.
AfterIterNoAdvance(a, f, branch) ==
    LET i1 == ScanUp(a, f.i, f.pivot)
        j1 == ScanDown(a, f.j, f.pivot)
    IN  [f EXCEPT !.i = i1, !.j = j1, !.pc = IF i1 <= j1 THEN "loop" ELSE branch]

\* One pass of the outer loop, followed by the loop test.
AfterIter(a, f, branch) ==
    LET i2 == IterI(a, f)
        j2 == IterJ(a, f)
    IN  [f EXCEPT !.i = i2, !.j = j2, !.pc = IF i2 <= j2 THEN "loop" ELSE branch]

----------------------------------------------------------------------------
(* main and the sequential sorter *)

Init ==
    /\ input \in Inputs
    /\ Cut_Off \in CutOffs
    /\ arr_s = input
    /\ arr_p = input
    /\ mpc = "main"
    /\ stk_s = <<>>
    /\ arriving = NumThreads
    /\ waiting = 0
    /\ stacks = EmptyBag
    /\ pool = EmptyBag
    /\ singleTaken = FALSE
    /\ GenIdle
    /\ PiIdle

\* main calls sort_s, which calls QuickSort(arr, 0, Num_To_Sort - 1).
Call_sort_s ==
    /\ mpc = "main"
    /\ mpc' = "sort_s"
    /\ stk_s' = <<NewFrame(0, Num_To_Sort - 1, "call", <<>>)>>
    /\ UNCHANGED <<input, Cut_Off, arr_s, arr_p, arriving, waiting, stacks, pool, singleTaken, genVars, piVars>>

\* QuickSort reads its pivot.
QS_ReadPivot ==
    /\ mpc = "sort_s"
    /\ stk_s # <<>>
    /\ Top(stk_s).pc = "pivot"
    /\ LET f == Top(stk_s) IN
       \E v \in ReadValues(arr_s, PivotIndex(f.left, f.right), FALSE) :
           stk_s' = SetTop(stk_s, AfterPivot(f, v, SeqBranch(f)))
    /\ UNCHANGED <<input, Cut_Off, arr_s, arr_p, mpc, arriving, waiting, stacks, pool, singleTaken, genVars, piVars>>

\* QuickSort runs one pass of its partition loop.
QS_Partition ==
    /\ mpc = "sort_s"
    /\ stk_s # <<>>
    /\ Top(stk_s).pc = "loop"
    /\ LET f == Top(stk_s) IN
       /\ arr_s' = IterArr(arr_s, f)
       /\ stk_s' = SetTop(stk_s, AfterIter(arr_s, f, SeqBranch(f)))
    /\ UNCHANGED <<input, Cut_Off, arr_p, mpc, arriving, waiting, stacks, pool, singleTaken, genVars, piVars>>

\* QuickSort makes its guarded recursive calls, or returns.
QS_Recurse ==
    /\ mpc = "sort_s"
    /\ stk_s # <<>>
    /\ Top(stk_s).pc = "call1"
    /\ stk_s' = Resume(stk_s)
    /\ UNCHANGED <<input, Cut_Off, arr_s, arr_p, mpc, arriving, waiting, stacks, pool, singleTaken, genVars, piVars>>

\* sort_s returns to main, which calls sort_p: the parallel region starts.
Return_sort_s ==
    /\ mpc = "sort_s"
    /\ stk_s = <<>>
    /\ mpc' = "sort_p"
    /\ UNCHANGED <<input, Cut_Off, arr_s, arr_p, stk_s, arriving, waiting, stacks, pool, singleTaken, genVars, piVars>>

----------------------------------------------------------------------------
(* sort_p: the parallel region *)

\* The threads of the team are interchangeable (sort_p never asks for a thread
\* number), so the team is kept as counts and a bag: a thread that executes
\* QuickSort_Parallel is its call stack in stacks.

\* The thread running stack s takes a step that leaves it with stack s2; with
\* nothing left to run it waits at the barrier that ends the region.
SetStack(s, s2) ==
    /\ stacks' = (stacks (-) SetToBag({s}))
                    (+) (IF s2 = <<>> THEN EmptyBag ELSE SetToBag({s2}))
    /\ waiting' = waiting + (IF s2 = <<>> THEN 1 ELSE 0)

\* The first thread to reach the single block runs QuickSort_Parallel on the
\* whole array.
EnterSingle ==
    /\ mpc = "sort_p"
    /\ arriving > 0
    /\ ~singleTaken
    /\ singleTaken' = TRUE
    /\ arriving' = arriving - 1
    /\ stacks' = stacks (+) SetToBag({<<NewFrame(0, Num_To_Sort - 1, "call", <<>>)>>})
    /\ UNCHANGED <<input, Cut_Off, arr_s, arr_p, mpc, stk_s, waiting, pool, genVars, piVars>>

\* The other threads skip the single block and, because of nowait, go on to
\* the barrier at the end of the region.
SkipSingle ==
    /\ mpc = "sort_p"
    /\ arriving > 0
    /\ singleTaken
    /\ arriving' = arriving - 1
    /\ waiting' = waiting + 1
    /\ UNCHANGED <<input, Cut_Off, arr_s, arr_p, mpc, stk_s, stacks, pool, singleTaken, genVars, piVars>>

\* The stacks of the threads other than the one running stack s.
Others(s) == {u \in BagToSet(stacks) : u # s \/ CopiesIn(s, stacks) > 1}

\* Whether the next step of a thread other than the one running s writes
\* index m.
WrittenByOther(s, m) ==
    \E u \in Others(s) : m \in NextWrites(arr_p, Top(u))

\* QuickSort_Parallel reads its pivot.
QSP_ReadPivot(s) ==
    /\ mpc = "sort_p"
    /\ Top(s).pc = "pivot"
    /\ LET f == Top(s)
           m == PivotIndex(f.left, f.right)
       IN  \E v \in ReadValues(arr_p, m, WrittenByOther(s, m)) :
               SetStack(s, SetTop(s, AfterPivot(f, v, ParBranch(f, Cut_Off))))
    /\ UNCHANGED <<input, Cut_Off, arr_s, arr_p, mpc, stk_s, arriving, pool, singleTaken, genVars, piVars>>

\* QuickSort_Parallel runs one pass of its partition loop.
QSP_Partition(s) ==
    /\ mpc = "sort_p"
    /\ Top(s).pc = "loop"
    /\ LET f == Top(s) IN
       /\ arr_p' = IterArr(arr_p, f)
       /\ SetStack(s, SetTop(s, AfterIter(arr_p, f, ParBranch(f, Cut_Off))))
    /\ UNCHANGED <<input, Cut_Off, arr_s, mpc, stk_s, arriving, pool, singleTaken, genVars, piVars>>

\* The inline branch: QuickSort_Parallel makes its guarded recursive calls,
\* or returns.
QSP_Recurse(s) ==
    /\ mpc = "sort_p"
    /\ Top(s).pc = "call1"
    /\ SetStack(s, Resume(s))
    /\ UNCHANGED <<input, Cut_Off, arr_s, arr_p, mpc, stk_s, arriving, pool, singleTaken, genVars, piVars>>

\* Mutant of TaskRange: the first task is given [left, j - 1].
TaskRangeShort(f) == IF f.pc = "task1" THEN <<f.left, f.j - 1>> ELSE <<f.i, f.right>>

\* Mutant of TaskRange: the second task is given [j, right].
TaskRangeWide(f) == IF f.pc = "task1" THEN <<f.left, f.j>> ELSE <<f.j, f.right>>

\* Mutant of TaskRange: the first task is given [left, i].
TaskRangeOverlap(f) == IF f.pc = "task1" THEN <<f.left, f.i>> ELSE <<f.i, f.right>>

\* The sub-range the task construct at f.pc hands to QuickSort_Parallel.
TaskRange(f) == IF f.pc = "task1" THEN <<f.left, f.j>> ELSE <<f.i, f.right>>

\* The place in the tree of the task that the construct at f.pc creates.
TaskPath(f) == Append(f.path, IF f.pc = "task1" THEN 1 ELSE 2)

\* The task that the construct at f.pc creates: its range and its place.
Task(f) == <<TaskRange(f)[1], TaskRange(f)[2], TaskPath(f)>>

\* Mutant of AfterTask: the invocation returns after its first task.
AfterTaskOnce(f) == [f EXCEPT !.pc = "ret"]

\* The submitting invocation after the task construct at f.pc.
AfterTask(f) == [f EXCEPT !.pc = IF f.pc = "task1" THEN "task2" ELSE "ret"]

\* Whether the runtime can queue one more task.
PoolHasRoom == BagCardinality(pool) < MaxPool

\* The task construct with room in the pool: the task is deferred.
SubmitTask(s) ==
    /\ mpc = "sort_p"
    /\ Top(s).pc \in {"task1", "task2"}
    /\ PoolHasRoom
    /\ LET f == Top(s) IN
       /\ pool' = pool (+) SetToBag({Task(f)})
       /\ SetStack(s, Resume(SetTop(s, AfterTask(f))))
    /\ UNCHANGED <<input, Cut_Off, arr_s, arr_p, mpc, stk_s, arriving, singleTaken, genVars, piVars>>

\* Mutant of Undeferred: a task that cannot be queued is discarded.
UndeferredDropped(stk, f) == Resume(SetTop(stk, AfterTask(f)))

\* The stack of the encountering thread when the task cannot be queued: the
\* task body runs at once on that thread.
Undeferred(stk, f) ==
    Append(SetTop(stk, AfterTask(f)),
           NewFrame(TaskRange(f)[1], TaskRange(f)[2], "task", TaskPath(f)))

\* The task construct with the pool exhausted: the task is undeferred.
RunTaskUndeferred(s) ==
    /\ mpc = "sort_p"
    /\ Top(s).pc \in {"task1", "task2"}
    /\ ~PoolHasRoom
    /\ SetStack(s, Undeferred(s, Top(s)))
    /\ UNCHANGED <<input, Cut_Off, arr_s, arr_p, mpc, stk_s, arriving, pool, singleTaken, genVars, piVars>>

\* A thread waiting at the barrier starts the queued task r.
StartTask(r) ==
    /\ mpc = "sort_p"
    /\ waiting > 0
    /\ waiting' = waiting - 1
    /\ pool' = pool (-) SetToBag({r})
    /\ stacks' = stacks (+) SetToBag({<<NewFrame(r[1], r[2], "task", r[3])>>})
    /\ UNCHANGED <<input, Cut_Off, arr_s, arr_p, mpc, stk_s, arriving, singleTaken, genVars, piVars>>

\* Mutant of BarrierOpen: the barrier waits for the threads to arrive but
\* not for the queued tasks.
BarrierNoTaskWait ==
    /\ arriving = 0
    /\ stacks = EmptyBag

\* The barrier at the end of the parallel region: every thread has arrived
\* and every task of the region has completed.
BarrierOpen ==
    /\ arriving = 0
    /\ stacks = EmptyBag
    /\ pool = EmptyBag

\* The parallel region ends and sort_p returns to main.
Return_sort_p ==
    /\ mpc = "sort_p"
    /\ BarrierOpen
    /\ mpc' = "done"
    /\ UNCHANGED <<input, Cut_Off, arr_s, arr_p, stk_s, arriving, waiting, stacks, pool, singleTaken, genVars, piVars>>

Next ==
    \/ Call_sort_s
    \/ QS_ReadPivot
    \/ QS_Partition
    \/ QS_Recurse
    \/ Return_sort_s
    \/ EnterSingle
    \/ SkipSingle
    \/ \E s \in BagToSet(stacks) : QSP_ReadPivot(s)
    \/ \E s \in BagToSet(stacks) : QSP_Partition(s)
    \/ \E s \in BagToSet(stacks) : QSP_Recurse(s)
    \/ \E s \in BagToSet(stacks) : SubmitTask(s)
    \/ \E s \in BagToSet(stacks) : RunTaskUndeferred(s)
    \/ \E r \in BagToSet(pool) : StartTask(r)
    \/ Return_sort_p

Spec == Init /\ [][Next]_vars

\* Every thread of the team keeps running and main is never descheduled for
\* ever: a step that stays possible is eventually taken.
FairSpec == Spec /\ WF_vars(Next)

----------------------------------------------------------------------------
(* Lab Four, main: the parallel region that fills the array *)

\* The thread numbers of the team: omp_get_thread_num() is 0 .. T - 1.
GenThreads == 0..(max_threads - 1)

\* const long chunk_size = Num_To_Sort / omp_get_max_threads();
chunk_size == CDiv(gen_size, max_threads)

\* const long chunk_start = p * chunk_size;
chunk_start(p) == p * chunk_size

\* const long chunk_end = chunk_start + chunk_size;
chunk_end(p) == chunk_start(p) + chunk_size

\* main has allocated arr_s, no cell of which is written yet, and the team of
\* the parallel region starts.
GenInit ==
    /\ SortIdle
    /\ PiIdle
    /\ gen_pc = "region"
    /\ max_threads \in 1..MaxThreads
    /\ gen_size \in 0..MaxLen
    /\ gen_arr = [k \in 0..(gen_size - 1) |-> 0]
    /\ gen_writes = [k \in 0..(gen_size - 1) |-> 0]
    /\ gen_i = [p \in GenThreads |-> -1]

\* Thread p computes its chunk and enters its loop: i = chunk_start.
Gen_Start(p) ==
    /\ gen_pc = "region"
    /\ gen_i[p] = -1
    /\ gen_i' = [gen_i EXCEPT ![p] = chunk_start(p)]
    /\ UNCHANGED <<gen_pc, max_threads, gen_size, gen_arr, gen_writes>>
    /\ UNCHANGED <<sortVars, piVars>>

\* Thread p runs one pass of its loop: arr_s[i] = rand_r(&seed); i++.
Gen_Write(p) ==
    /\ gen_pc = "region"
    /\ gen_i[p] >= 0
    /\ gen_i[p] < chunk_end(p)
    /\ \E v \in Values : gen_arr' = [gen_arr EXCEPT ![gen_i[p]] = v]
    /\ gen_writes' = [gen_writes EXCEPT ![gen_i[p]] = @ + 1]
    /\ gen_i' = [gen_i EXCEPT ![p] = @ + 1]
    /\ UNCHANGED <<gen_pc, max_threads, gen_size>>
    /\ UNCHANGED <<sortVars, piVars>>

\* Every thread has left its loop: the region ends and main copies arr_s
\* into arr_p with memcpy.
Gen_Copy ==
    /\ gen_pc = "region"
    /\ \A p \in GenThreads : gen_i[p] >= 0 /\ gen_i[p] >= chunk_end(p)
    /\ gen_pc' = "copied"
    /\ arr_p' = gen_arr
    /\ UNCHANGED <<max_threads, gen_size, gen_arr, gen_writes, gen_i>>
    /\ UNCHANGED <<input, Cut_Off, arr_s, mpc, stk_s, arriving, waiting, stacks, pool, singleTaken>>
    /\ UNCHANGED piVars

GenNext ==
    \/ \E p \in GenThreads : Gen_Start(p)
    \/ \E p \in GenThreads : Gen_Write(p)
    \/ Gen_Copy

GenSpec == GenInit /\ [][GenNext]_vars

----------------------------------------------------------------------------
(* Lab One: Calculate_Pi_Parallel *)

\* The iterations of the parallel for loop: i = 0 .. numberOfThreads - 1.
Iterations == 0..(numberOfThreads - 1)

\* int workloadPerThread = number_of_tosses / numberOfThreads;
workloadPerThread == CDiv(number_of_tosses, numberOfThreads)

\* What Count_Number_Of_Samples_In_Circle can return for a number of tosses:
\* one increment at most per toss, whatever the seed.
Count_Number_Of_Samples_In_Circle(tosses) == 0..tosses

\* Calculate_Pi_Parallel is called; numberOfSamplesInCircle = 0 and the
\* parallel for starts, one iteration per thread of the team.
PiInit ==
    /\ SortIdle
    /\ GenIdle
    /\ pi_pc = "region"
    /\ number_of_tosses \in 0..MaxTosses
    /\ numberOfThreads \in 1..MaxThreads
    /\ numberOfSamplesInCircle = 0
    /\ ipc = [i \in Iterations |-> "call"]
    /\ samples = [i \in Iterations |-> 0]
    /\ loaded = [i \in Iterations |-> 0]

\* Iteration i evaluates the call on the right of +=.
Pi_Call(i) ==
    /\ pi_pc = "region"
    /\ ipc[i] = "call"
    /\ \E c \in Count_Number_Of_Samples_In_Circle(workloadPerThread) :
           samples' = [samples EXCEPT ![i] = c]
    /\ ipc' = [ipc EXCEPT ![i] = "load"]
    /\ UNCHANGED <<pi_pc, number_of_tosses, numberOfThreads, numberOfSamplesInCircle, loaded>>
    /\ UNCHANGED <<sortVars, genVars>>

\* Iteration i reads the shared counter: the loop has no reduction clause
\* and the += is neither atomic nor in a critical section.
Pi_Load(i) ==
    /\ pi_pc = "region"
    /\ ipc[i] = "load"
    /\ loaded' = [loaded EXCEPT ![i] = numberOfSamplesInCircle]
    /\ ipc' = [ipc EXCEPT ![i] = "store"]
    /\ UNCHANGED <<pi_pc, number_of_tosses, numberOfThreads, numberOfSamplesInCircle, samples>>
    /\ UNCHANGED <<sortVars, genVars>>

\* The value iteration i writes back to the shared counter.
StoredSum(i) == loaded[i] + samples[i]

\* Iteration i writes the sum back to the shared counter.
Pi_Store(i) ==
    /\ pi_pc = "region"
    /\ ipc[i] = "store"
    /\ numberOfSamplesInCircle' = StoredSum(i)
    /\ ipc' = [ipc EXCEPT ![i] = "done"]
    /\ UNCHANGED <<pi_pc, number_of_tosses, numberOfThreads, samples, loaded>>
    /\ UNCHANGED <<sortVars, genVars>>

\* The barrier that ends the parallel for; Calculate_Pi_Parallel returns the
\* estimate computed from the counter.
Pi_Return ==
    /\ pi_pc = "region"
    /\ \A i \in Iterations : ipc[i] = "done"
    /\ pi_pc' = "returned"
    /\ UNCHANGED <<number_of_tosses, numberOfThreads, numberOfSamplesInCircle, ipc, samples, loaded>>
    /\ UNCHANGED <<sortVars, genVars>>

PiNext ==
    \/ \E i \in Iterations : Pi_Call(i)
    \/ \E i \in Iterations : Pi_Load(i)
    \/ \E i \in Iterations : Pi_Store(i)
    \/ Pi_Return

PiSpec == PiInit /\ [][PiNext]_vars

----------------------------------------------------------------------------
(* Reference definitions used by the properties *)

Sorted(a) == \A k \in DOMAIN a : (k + 1) \in DOMAIN a => a[k] <= a[k + 1]

\* The multiset of the values of an array.
BagOfArray(a) ==
    [v \in {a[k] : k \in DOMAIN a} |-> Cardinality({k \in DOMAIN a : a[k] = v})]

\* The partition loop run to completion: the array, i and j at loop exit.
RECURSIVE PartitionLoop(_, _, _, _)
PartitionLoop(a, i, j, pivot) ==
    IF i <= j
    THEN LET f == [i |-> i, j |-> j, pivot |-> pivot]
         IN  PartitionLoop(IterArr(a, f), IterI(a, f), IterJ(a, f), pivot)
    ELSE [arr |-> a, i |-> i, j |-> j]

\* QuickSort_Parallel when every invocation takes the inline branch, as with
\* a Cut_Off larger than the array.  The pivot of an empty range is never
\* compared with anything.
RECURSIVE InlineSort(_, _, _)
InlineSort(a, left, right) ==
    LET m == PivotIndex(left, right)
        pivot == IF m \in DOMAIN a THEN a[m] ELSE 0
        p == PartitionLoop(a, left, right, pivot)
        a1 == IF left < p.j THEN InlineSort(p.arr, left, p.j) ELSE p.arr
    IN  IF p.i < right THEN InlineSort(a1, p.i, right) ELSE a1

\* The call stacks of the threads that are running QuickSort_Parallel.
Running == BagToSet(stacks)

\* Every invocation on some thread's stack.
Frames == UNION {{s[k] : k \in DOMAIN s} : s \in Running}

\* In stack s, a task body that runs on top of the invocation that submitted
\* it.
IsUndeferred(s, k) == k > 1 /\ s[k].kind = "task"

----------------------------------------------------------------------------
(* Properties *)

\* C1 -- Order invariant: once sort_s has returned arr_s is in non-decreasing
\* order, and once sort_p has returned arr_p is in non-decreasing order, for
\* every input, Cut_Off and interleaving of the tasks.
OrderInvariant ==
    /\ mpc \in {"sort_p", "done"} => Sorted(arr_s)
    /\ mpc = "done" => Sorted(arr_p)

\* C1 witness: both sorters have returned on an input that was out of order
\* and that the parallel sorter split into tasks.
OrderWitness ==
    /\ mpc = "done"
    /\ ~Sorted(input)
    /\ Num_To_Sort - 1 >= Cut_Off

\* C2 -- Permutation invariant: at every moment, and so when sort_s or sort_p
\* has returned, each array holds exactly the multiset of values of the input.
PermutationInvariant ==
    /\ BagOfArray(arr_s) = BagOfArray(input)
    /\ BagOfArray(arr_p) = BagOfArray(input)

\* C2 witness: both sorters have returned and both have moved values.
PermutationWitness ==
    /\ mpc = "done"
    /\ arr_s # input
    /\ arr_p # input
    /\ Num_To_Sort - 1 >= Cut_Off

\* C3 -- Equivalence: when both sorters have returned, sort_p's copy of the
\* input equals the array sort_s produced, whatever the schedule.
Equivalence == mpc = "done" => arr_p = arr_s

\* C3 witness: both have returned on an unsorted input with repeated values,
\* after the parallel sorter fanned out.
EquivalenceWitness ==
    /\ mpc = "done"
    /\ ~Sorted(input)
    /\ Num_To_Sort - 1 >= Cut_Off
    /\ \E k \in DOMAIN input : \E l \in DOMAIN input : k # l /\ input[k] = input[l]

\* C4 -- Join semantics: sort_p has not returned while a submitted task is
\* still queued or an invocation is still running on any thread.
JoinSemantics ==
    mpc = "done" => (pool = EmptyBag /\ Running = {})

\* C4 witness: sort_p is still inside the region although the single block
\* is finished: its thread waits at the barrier while tasks are queued and
\* another thread runs one.
JoinWitness ==
    /\ mpc = "sort_p"
    /\ singleTaken
    /\ arriving = 0
    /\ waiting > 0
    /\ pool # EmptyBag
    /\ Running # {}
    /\ \A s \in Running : s[1].kind = "task"

\* The accesses of the next step of the invocation on top of stack s.
Reads(s) == NextReads(arr_p, Top(s))
Writes(s) == NextWrites(arr_p, Top(s))

\* C5 -- Data-race freedom: no two threads are about to touch the same index
\* of arr_p when at least one of the two accesses is a write.
DataRaceFree ==
    \A s \in Running : \A u \in Others(s) :
        Writes(s) \cap (Reads(u) \cup Writes(u)) = {}

\* C5, second part: every access of an invocation of QuickSort_Parallel lies
\* inside its own [left, right].
AccessInOwnRange ==
    \A s \in Running :
        (Reads(s) \cup Writes(s)) \subseteq (Top(s).left .. Top(s).right)

\* An invocation that is past its partition loop.
PastLoop(f) == f.pc \in {"call1", "call2", "task1", "task2", "ret"}

\* Each partition loop has exited with i > j, and the two sub-ranges handed on
\* are strictly smaller than the range of the invocation.
StrictlySmaller ==
    \A f \in Frames \cup {stk_s[k] : k \in DOMAIN stk_s} :
        (PastLoop(f) /\ f.left <= f.right) =>
            (f.j < f.i /\ f.j < f.right /\ f.left < f.i)

\* C6 -- Termination: for every input (all-equal arrays included) and every
\* Cut_Off, under fair scheduling QuickSort returns, every task completes
\* and sort_p returns; every partition loop exits with i > j and hands on
\* strictly smaller ranges.
Termination ==
    /\ []StrictlySmaller
    /\ <>(mpc = "done")

\* C6 witness: both sorters have returned on an array of at least three
\* elements, all equal, that the parallel sorter split into tasks.
TerminationWitness ==
    /\ mpc = "done"
    /\ Num_To_Sort >= 3
    /\ \A k \in DOMAIN input : input[k] = input[0]
    /\ Cut_Off = 1

\* C7 -- Cutoff independence: whatever Cut_Off is, fan-out at every level
\* included, sort_p leaves the array the fully inline sorter produces; for
\* the input [5, 3, 8, 1, 9, 2] that is [1, 2, 3, 5, 8, 9].
CutoffIndependence ==
    mpc = "done" =>
        /\ arr_p = InlineSort(input, 0, Num_To_Sort - 1)
        /\ input = ScenarioInput => arr_p = ScenarioOutput

\* C7 witness: sort_p has returned on [5, 3, 8, 1, 9, 2] with Cut_Off = 1.
CutoffIndependenceWitness ==
    /\ mpc = "done"
    /\ input = ScenarioInput
    /\ Cut_Off = 1

\* C8 as claimed -- a range of exactly Cut_Off elements fans out and a range
\* of Cut_Off - 1 elements recurses inline.
CutoffBoundaryInElements ==
    \A s \in Running :
        LET f == Top(s) IN
        f.pc \in {"call1", "task1"} =>
            /\ (f.right - f.left + 1 = Cut_Off) => f.pc = "task1"
            /\ (f.right - f.left + 1 = Cut_Off - 1) => f.pc = "call1"

\* C8 as amended -- a range with right - left = Cut_Off (Cut_Off + 1 elements)
\* fans out and a range with right - left = Cut_Off - 1 (Cut_Off elements)
\* recurses inline: tasks are submitted exactly when right - left >= Cut_Off;
\* either way the array is sorted when sort_p returns.
CutoffBoundary ==
    /\ \A s \in Running :
        LET f == Top(s) IN
        f.pc \in {"call1", "task1"} =>
            /\ (f.right - f.left = Cut_Off) => f.pc = "task1"
            /\ (f.right - f.left = Cut_Off - 1) => f.pc = "call1"
            /\ f.pc = "task1" <=> (f.right - f.left >= Cut_Off)
    /\ mpc = "done" => Sorted(arr_p)

\* C8 witness: one thread is about to fan out a range of Cut_Off + 1 elements
\* while another is about to recurse inline on a range of Cut_Off elements.
CutoffBoundaryWitness ==
    \E s \in Running : \E u \in Running \ {s} :
        /\ Top(s).pc = "task1"
        /\ Top(s).right - Top(s).left = Cut_Off
        /\ Top(u).pc = "call1"
        /\ Top(u).right - Top(u).left = Cut_Off - 1

\* For an empty or one-element array: the arrays stay as they are, no
\* recursive call is made and no task is submitted.
BoundaryNoRecursion ==
    Num_To_Sort <= 1 =>
        /\ arr_s = input /\ arr_p = input
        /\ Len(stk_s) <= 1
        /\ \A s \in Running : Len(s) <= 1
        /\ pool = EmptyBag
        /\ \A f \in Frames : f.pc \notin {"task1", "task2"} /\ f.kind = "call"

\* For an empty or one-element array: no index outside 0..length-1 is
\* accessed.
BoundaryAccessInArray ==
    Num_To_Sort <= 1 =>
        /\ stk_s # <<>> =>
             (NextReads(arr_s, Top(stk_s)) \cup NextWrites(arr_s, Top(stk_s)))
                 \subseteq DOMAIN input
        /\ \A s \in Running : (Reads(s) \cup Writes(s)) \subseteq DOMAIN input

\* C9 -- Boundary cases: for an empty and for a single-element array both
\* sorters return with the array unchanged, without recursive call or task,
\* and without accessing an index outside 0..length-1.
BoundaryCases == BoundaryNoRecursion /\ BoundaryAccessInArray

\* The sub-ranges whose sorting is still owed: the queued tasks and the
\* ranges of the invocations on the stacks.
LiveRanges ==
    {<<r[1], r[2]>> : r \in BagToSet(pool)} \cup {<<f.left, f.right>> : f \in Frames}

RECURSIVE SumOfSamples(_)
SumOfSamples(I) ==
    IF I = {} THEN 0
    ELSE LET i == CHOOSE x \in I : TRUE
         IN  samples[i] + SumOfSamples(I \ {i})

\* C11 -- The Monte Carlo accumulation behaves as a reduction: when
\* Calculate_Pi_Parallel returns, numberOfSamplesInCircle is the sum of the
\* results of all iterations, for every interleaving of the threads.
ReductionCorrect ==
    pi_pc = "returned" => numberOfSamplesInCircle = SumOfSamples(Iterations)

\* The invocations of QuickSort that are on its call stack.
SeqFrames == {stk_s[k] : k \in DOMAIN stk_s}

\* What holds of invocation f on array a once its partition loop has exited.
PartitionPost(a, f) ==
    (PastLoop(f) /\ f.left <= f.right) =>
        /\ f.j < f.i
        /\ \A k \in f.left .. f.j : a[k] <= f.pivot
        /\ \A k \in f.i .. f.right : a[k] >= f.pivot
        /\ \E k \in f.left .. f.right : a[k] = f.pivot
        /\ f.left - 1 <= f.j
        /\ f.i <= f.right + 1

\* What holds of invocation f on array a while it is in its partition loop:
\* before the first pass the pivot is the value of the middle cell, and the
\* scans of the next pass stay inside [left, right].
PartitionLoopInv(a, f) ==
    f.pc = "loop" =>
        /\ (f.i = f.left /\ f.j = f.right) =>
               f.pivot = a[PivotIndex(f.left, f.right)]
        /\ NextReads(a, f) \subseteq (f.left .. f.right)

\* C12 -- Partition postcondition: for every call with left <= right, at loop
\* exit j < i, every element of [left, j] is <= pivot and every element of
\* [i, right] is >= pivot, the pivot being the value read from the middle
\* cell before the first swap; left - 1 <= j and i <= right + 1; the scans
\* read no index outside [left, right].
PartitionPostcondition ==
    /\ \A f \in SeqFrames : PartitionPost(arr_s, f) /\ PartitionLoopInv(arr_s, f)
    /\ \A f \in Frames : PartitionPost(arr_p, f) /\ PartitionLoopInv(arr_p, f)

\* C12 witness: an invocation of QuickSort_Parallel on at least three cells
\* has left its loop after swapping, with both parts non-empty, and so has an
\* invocation of QuickSort.
PartitionPostconditionWitness ==
    /\ \E f \in Frames :
        /\ PastLoop(f) /\ f.right - f.left >= 2
        /\ f.left <= f.j /\ f.i <= f.right
        /\ arr_p # input
    /\ arr_s # input

\* Every invocation of either sorter that is on a stack.
AllFrames == SeqFrames \cup Frames

\* The two sub-ranges an invocation hands on at loop exit.
LeftPart(f) == f.left .. f.j
RightPart(f) == f.i .. f.right

\* C13 as claimed -- after every partition step the sub-ranges [left, j] and
\* [i, right] are disjoint and together cover every index of [left, right].
PartitionCoverageComplete ==
    \A f \in AllFrames :
        PastLoop(f) =>
            /\ LeftPart(f) \cap RightPart(f) = {}
            /\ LeftPart(f) \cup RightPart(f) = f.left .. f.right

\* C13 as amended -- after every partition step the sub-ranges [left, j] and
\* [i, right] are disjoint, lie inside [left, right], and cover every index
\* of [left, right] except, when the loop exits with i = j + 2, the single
\* index j + 1 between them.
PartitionCoverage ==
    \A f \in AllFrames :
        PastLoop(f) =>
            /\ LeftPart(f) \cap RightPart(f) = {}
            /\ LeftPart(f) \cup RightPart(f) \subseteq f.left .. f.right
            /\ (f.left .. f.right) \ (LeftPart(f) \cup RightPart(f))
                   = (IF f.i = f.j + 2 THEN {f.j + 1} ELSE {})

\* C13 witness: an invocation of QuickSort_Parallel has left its loop with two
\* non-empty sub-ranges and one index between them.
PartitionCoverageWitness ==
    \E f \in Frames :
        /\ PastLoop(f) /\ f.i = f.j + 2
        /\ f.left <= f.j /\ f.i <= f.right

\* The array both sorters end with.
Final == InlineSort(input, 0, Num_To_Sort - 1)

\* The indices invocation f has still to work on, itself or through the
\* calls and tasks it has yet to make: a call is made for a part of two cells
\* or more, a task is submitted for any part.
Remaining(f) ==
    LET l == IF f.left < f.j THEN LeftPart(f) ELSE {}
        r == IF f.i < f.right THEN RightPart(f) ELSE {}
    IN  CASE f.pc \in {"pivot", "loop"} -> f.left .. f.right
          [] f.pc = "call1" -> l \cup r
          [] f.pc = "call2" -> r
          [] f.pc = "task1" -> LeftPart(f) \cup RightPart(f)
          [] f.pc = "task2" -> RightPart(f)
          [] OTHER -> {}

\* The indices of arr_s that QuickSort has still to work on.
PendingSeq ==
    IF mpc = "main" THEN DOMAIN input
    ELSE UNION {Remaining(f) : f \in SeqFrames}

\* The indices of arr_p that QuickSort_Parallel has still to work on, in a
\* running invocation or in a queued task.
PendingPar ==
    IF mpc \in {"main", "sort_s"} \/ ~singleTaken THEN DOMAIN input
    ELSE UNION ({Remaining(f) : f \in Frames} \cup {r[1] .. r[2] : r \in BagToSet(pool)})

\* At loop exit i - j is 1 or 2, and with i - j = 2 the cell between the two
\* sub-ranges holds the pivot value.
OmittedHoldsPivot(a, f) ==
    (PastLoop(f) /\ f.left <= f.right) =>
        /\ f.i - f.j \in {1, 2}
        /\ f.i - f.j = 2 => a[f.j + 1] = f.pivot

\* With i - j = 2 the cell between the two sub-ranges holds the value the
\* finished array has at that index.
OmittedIsFinal ==
    LET final == Final IN
    /\ \A f \in SeqFrames :
        (PastLoop(f) /\ f.i - f.j = 2) => arr_s[f.j + 1] = final[f.j + 1]
    /\ \A f \in Frames :
        (PastLoop(f) /\ f.i - f.j = 2) => arr_p[f.j + 1] = final[f.j + 1]

\* A cell no invocation or task has still to work on holds its final value.
SettledIsFinal ==
    LET final == Final IN
    /\ \A k \in DOMAIN input \ PendingSeq : arr_s[k] = final[k]
    /\ \A k \in DOMAIN input \ PendingPar : arr_p[k] = final[k]

\* A cell that nothing has still to work on stays so and keeps its value.
SettledStays ==
    LET seq == PendingSeq
        par == PendingPar
    IN  /\ PendingSeq' \subseteq seq
        /\ PendingPar' \subseteq par
        /\ \A k \in DOMAIN input \ seq : arr_s'[k] = arr_s[k]
        /\ \A k \in DOMAIN input \ par : arr_p'[k] = arr_p[k]

\* C14 -- Omitted index: after every partition step with left <= right, i - j
\* is 1 or 2; with i - j = 2 the index j + 1 that is in neither sub-range
\* holds a value equal to the pivot and is in its final position: from then
\* on no invocation or task has it to work on, its value never changes and it
\* is the value of that index in the finished array.
OmittedIndex ==
    /\ [](\A f \in SeqFrames : OmittedHoldsPivot(arr_s, f))
    /\ [](\A f \in Frames : OmittedHoldsPivot(arr_p, f))
    /\ [](\A f \in AllFrames :
            (PastLoop(f) /\ f.i - f.j = 2) => (f.j + 1) \notin Remaining(f))
    /\ []OmittedIsFinal
    /\ []SettledIsFinal
    /\ [][SettledStays]_vars

\* C14 witness: an invocation of QuickSort_Parallel has left its loop with
\* i = j + 2 and a non-empty left part, after values were moved, while other
\* cells are still to be worked on.
OmittedIndexWitness ==
    \E f \in Frames :
        /\ PastLoop(f) /\ f.i = f.j + 2 /\ f.left <= f.j
        /\ arr_p # input
        /\ (f.j + 1) \notin PendingPar
        /\ PendingPar # {}

\* C15 as claimed -- a partition step called with left = right returns with
\* i = j = left.
DegenerateReturnsLeft ==
    \A f \in AllFrames :
        (PastLoop(f) /\ f.left = f.right) => (f.i = f.left /\ f.j = f.left)

\* The partition of invocation f on the one-cell range of array a: the scans
\* of its single pass move neither i nor j, and it exits with i and j crossed.
DegenerateStep(a, f) ==
    f.left = f.right =>
        /\ f.pc = "loop" =>
            /\ f.i = f.left /\ f.j = f.left
            /\ f.pivot = a[f.left]
            /\ ScanUp(a, f.i, f.pivot) = f.i
            /\ ScanDown(a, f.j, f.pivot) = f.j
            /\ IterArr(a, f) = a
        /\ PastLoop(f) => (f.i = f.left + 1 /\ f.j = f.left - 1)

\* C15 as amended -- a partition step called with left = right makes one
\* pass whose scans are no-ops, swaps the cell with itself, and returns with
\* i = left + 1 and j = left - 1, the array unchanged.
DegeneratePartition ==
    /\ \A f \in SeqFrames : DegenerateStep(arr_s, f)
    /\ \A f \in Frames : DegenerateStep(arr_p, f)

\* C15 witness: a task of QuickSort_Parallel on a one-cell range of a longer
\* array has left its loop.
DegeneratePartitionWitness ==
    \E f \in Frames :
        /\ f.left = f.right /\ PastLoop(f)
        /\ f.kind = "task"
        /\ Num_To_Sort >= 3

\* Every invocation made by a direct recursive call is on a range of two
\* cells or more: the calls of QuickSort and of the inline branch of
\* QuickSort_Parallel are guarded.
CallsGuarded ==
    /\ \A k \in DOMAIN stk_s : k > 1 => stk_s[k].left < stk_s[k].right
    /\ \A s \in Running : \A k \in DOMAIN s :
        (k > 1 /\ s[k].kind = "call") => s[k].left < s[k].right

\* Every task, queued or running, is on a range of two cells or more.
TasksGuarded ==
    /\ \A r \in BagToSet(pool) : r[1] < r[2]
    /\ \A f \in Frames : f.kind = "task" => f.left < f.right

\* C16 -- Guarded recursion: every recursive invocation, made inline or
\* submitted as a task, is made only for a sub-range with left < j, or with
\* i < right: apart from the top-level call no invocation of QuickSort or
\* QuickSort_Parallel receives an empty or a one-cell range.
GuardedRecursion == CallsGuarded /\ TasksGuarded

\* Whether the invocation at place p of the tree is an ancestor of the one at
\* place q: q is reached from p through calls and tasks.
IsAncestor(p, q) == Len(p) < Len(q) /\ SubSeq(q, 1, Len(p)) = p

\* The invocations of QuickSort_Parallel that exist: the running ones and the
\* queued tasks, each with its range and its place in the tree.
Live ==
    {[left |-> f.left, right |-> f.right, path |-> f.path] : f \in Frames}
        \cup {[left |-> r[1], right |-> r[2], path |-> r[3]] : r \in BagToSet(pool)}

\* C17 -- Disjoint live ranges: in every state of sort_p, two invocations of
\* QuickSort_Parallel that are live together, running or queued, and neither
\* of which is an ancestor of the other, have index ranges that do not
\* intersect; no invocation is live twice.
DisjointLiveRanges ==
    /\ \A f \in Live : \A g \in Live :
        (f # g /\ ~IsAncestor(f.path, g.path) /\ ~IsAncestor(g.path, f.path)) =>
            /\ f.path # g.path
            /\ (f.left .. f.right) \cap (g.left .. g.right) = {}
    /\ \A f \in Frames : \A g \in Frames : f.path = g.path => f = g
    /\ \A s \in Running : CopiesIn(s, stacks) = 1
    /\ \A r \in BagToSet(pool) : CopiesIn(r, pool) = 1

\* C17 witness: two sibling tasks run on two threads, each in its partition
\* loop on a range of two cells or more.
DisjointLiveRangesWitness ==
    \E s \in Running : \E u \in Running :
        /\ Top(s).path = <<1>> /\ Top(u).path = <<2>>
        /\ Top(s).pc = "loop" /\ Top(u).pc = "loop"
        /\ Top(s).left < Top(s).right
        /\ Top(u).left < Top(u).right

\* The cells the next step of invocation f writes or changes in array a.
StepWrites(a, f) ==
    IF f.pc = "loop"
    THEN NextWrites(a, f) \cup {k \in DOMAIN a : IterArr(a, f)[k] # a[k]}
    ELSE {}

\* The invocations whose subtree the invocation at place p belongs to.
SubtreeRoots(p) == {g \in Frames : g.path = p \/ IsAncestor(g.path, p)}

\* C18 -- Frame: an invocation of QuickSort or QuickSort_Parallel on
\* [left, right], with every call and task it transitively creates, writes
\* only cells of [left, right]: every write of a running invocation lies in
\* its own range and in the range of each of its live ancestors, and every
\* call or task, queued or running, is on a range inside the range of each of
\* its live ancestors, so cells outside are changed by other subtrees only.
FrameEffect ==
    /\ stk_s # <<>> =>
        \A g \in SeqFrames : StepWrites(arr_s, Top(stk_s)) \subseteq g.left .. g.right
    /\ \A k \in DOMAIN stk_s : \A m \in DOMAIN stk_s :
        k < m => (stk_s[m].left .. stk_s[m].right)
                     \subseteq (stk_s[k].left .. stk_s[k].right)
    /\ \A s \in Running : \A g \in SubtreeRoots(Top(s).path) :
        StepWrites(arr_p, Top(s)) \subseteq g.left .. g.right
    /\ \A f \in Live : \A g \in Live :
        IsAncestor(g.path, f.path) =>
            (f.left .. f.right) \subseteq (g.left .. g.right)
    /\ \A f \in Frames :
        f.pc \in {"task1", "task2"} =>
            (TaskRange(f)[1] .. TaskRange(f)[2]) \subseteq (f.left .. f.right)

\* C18 witness: an invocation of QuickSort_Parallel is about to swap while an
\* ancestor of it other than the top-level call is live, on an array in which
\* values have been moved.
FrameEffectWitness ==
    \E s \in Running : \E g \in Frames :
        /\ IsAncestor(g.path, Top(s).path)
        /\ g.path # <<>>
        /\ NextWrites(arr_p, Top(s)) # {}
        /\ arr_p # input

\* Whether the invocation at depth k of stack s has taken the inline branch:
\* it is at its guarded calls, or it waits for a direct call to return.
TookInline(s, k) ==
    \/ s[k].pc \in {"call1", "call2"}
    \/ s[k].pc = "ret" /\ k < Len(s) /\ s[k + 1].kind = "call"

\* Whether the invocation on top of stack s is inside the subtree of an
\* invocation that has taken the inline branch.
InInlineSubtree(s) == \E k \in 1 .. (Len(s) - 1) : TookInline(s, k)

\* The next step of the invocation on top of stack s is the step QuickSort
\* takes from the same position on the same array.
StepsAsQuickSort(s) ==
    LET f == Top(s)
        m == PivotIndex(f.left, f.right)
    IN  /\ f.pc = "pivot" =>
            /\ ReadValues(arr_p, m, WrittenByOther(s, m)) = ReadValues(arr_p, m, FALSE)
            /\ \A v \in ReadValues(arr_p, m, FALSE) :
                AfterPivot(f, v, ParBranch(f, Cut_Off)) = AfterPivot(f, v, SeqBranch(f))
        /\ f.pc = "loop" =>
            AfterIter(arr_p, f, ParBranch(f, Cut_Off)) = AfterIter(arr_p, f, SeqBranch(f))
        /\ f.pc \notin {"task1", "task2"}

\* C19 -- Inline subtrees never fan out: once an invocation of
\* QuickSort_Parallel has taken the inline branch (right - left < Cut_Off),
\* every invocation of its subtree is a direct call on the same thread that
\* takes the inline branch too, none is a task, queued or running, and each
\* of their steps is the step QuickSort takes, so the sub-range is sorted by
\* the swaps QuickSort performs on it.
InlineSubtree ==
    \A s \in Running :
        /\ \A k \in DOMAIN s :
            TookInline(s, k) =>
                /\ s[k].right - s[k].left < Cut_Off
                /\ \A m \in DOMAIN s :
                    m > k => /\ s[m].kind = "call"
                             /\ s[m].pc \notin {"task1", "task2"}
                             /\ s[m].right - s[m].left < Cut_Off
                /\ \A g \in Live :
                    IsAncestor(s[k].path, g.path) =>
                        \E m \in DOMAIN s : m > k /\ s[m].path = g.path
        /\ InInlineSubtree(s) => StepsAsQuickSort(s)

\* C19 witness: a task that took the inline branch runs a direct call of its
\* subtree, which is about to swap, while the other task of the fan-out is
\* queued or running.
InlineSubtreeWitness ==
    \E s \in Running :
        /\ s[1].kind = "task"
        /\ TookInline(s, 1)
        /\ Len(s) >= 2
        /\ Top(s).pc = "loop"
        /\ NextWrites(arr_p, Top(s)) # {}
        /\ (pool # EmptyBag \/ Running # {s})

\* The indices of the chunk of thread p.
Chunk(p) == chunk_start(p) .. (chunk_end(p) - 1)

\* The chunks of two threads have no index in common, lie inside the array,
\* and no cell is written twice.
ChunksDisjoint ==
    /\ \A p \in GenThreads : \A q \in GenThreads :
        p # q => Chunk(p) \cap Chunk(q) = {}
    /\ \A p \in GenThreads : Chunk(p) \subseteq 0 .. (gen_size - 1)
    /\ \A k \in DOMAIN gen_writes : gen_writes[k] <= 1

\* When the array is copied every index has been written exactly once.
AllWrittenOnce ==
    gen_pc = "copied" =>
        \A k \in 0 .. (gen_size - 1) : gen_writes[k] = 1 /\ arr_p[k] \in Values

\* C20 -- Input generation covers the array without overlap: for every
\* thread count T >= 1 and every Num_To_Sort the chunks of the threads are
\* pairwise disjoint and every index of 0 .. Num_To_Sort - 1 is written by
\* exactly one thread before the array is copied and sorted.
GenerationCovers == ChunksDisjoint /\ AllWrittenOnce

====
